---- MODULE Spec2Model ----
(***************************************************************************)
(* Model of danmu_cli.py: the per-room monitor thread (LiveTask), the      *)
(* capture session (DanmuFetcher) with its receive and heartbeat threads,  *)
(* the inbound frame handler and the shutdown path of main.                *)
(***************************************************************************)
EXTENDS Integers, Sequences, FiniteSets, TLC

(***************************************************************************)
(* Bounds of the model.                                                    *)
(***************************************************************************)
MaxSessions == 2      \* DanmuFetcher objects created by start_fetch in a run
MaxFrames == 3        \* inbound frames the platform pushes in a run
MaxMsgs == 2          \* messages in one decoded batch
MaxTicks == 2         \* clock readings observed in a run
TimeStep == 900       \* seconds between two clock readings
MaxDigits == 20       \* decimal digits of a raw timestamp

Rooms == {1, 2}
Sessions == 1..MaxSessions

(***************************************************************************)
(* Program constants.                                                      *)
(***************************************************************************)
None == 0                            \* None, also for a missing attribute
grace_stop_seconds == 30 * 60
StartTime == TimeStep                \* time.time() when the tasks are built
DefaultLoopTime == 120               \* the loop time cfg_get falls back to
NoTs == <<>>                         \* no timestamp

(***************************************************************************)
(* Inbound frames.  A frame is what PushFrame().parse and gzip.decompress  *)
(* make of the bytes: the envelope parses or not, the payload inflates or  *)
(* not, and the decoded Response carries need_ack, internal_ext and the    *)
(* message list.                                                           *)
(***************************************************************************)
ChatMethod == "WebcastChatMessage"
Methods == {ChatMethod, "WebcastGiftMessage"}
Undecodable == "undecodable"
Contents == {"hello"}
Payloads == Contents \cup {Undecodable}
Messages == [method : Methods, payload : Payloads]
Envelopes ==
    {[need_ack |-> FALSE, log_id |-> 11, internal_ext |-> "x"],
     [need_ack |-> TRUE, log_id |-> 11, internal_ext |-> "x"],
     [need_ack |-> TRUE, log_id |-> 12, internal_ext |-> "y"]}

RECURSIVE SeqsUpTo(_, _)
SeqsUpTo(S, n) ==
    IF n = 0 THEN {<<>>}
    ELSE LET shorter == SeqsUpTo(S, n - 1)
         IN  shorter \cup {Append(q, x) : q \in {p \in shorter : Len(p) = n - 1}, x \in S}

Batches == SeqsUpTo({m \in Messages : m.method = ChatMethod \/ m.payload # Undecodable}, MaxMsgs)

Frames ==
    [kind : {"malformed", "badgzip"}, log_id : {11}, need_ack : {FALSE},
     internal_ext : {"x"}, messages_list : {<<>>}]
    \cup
    {[kind |-> "ok", log_id |-> e.log_id, need_ack |-> e.need_ack,
      internal_ext |-> e.internal_ext, messages_list |-> b] :
        e \in Envelopes, b \in Batches}

NoFrame == [kind |-> "none", log_id |-> 11, need_ack |-> FALSE,
            internal_ext |-> "x", messages_list |-> <<>>]

VARIABLES
    tasks,                  \* main: tasks (the rooms of URL_config.ini)
    clock,                  \* time.time()
    ticks,                  \* clock readings so far
    running,                \* LiveTask.running
    stop_flag,              \* LiveTask.stop_flag
    live_id,                \* LiveTask.live_id is non-empty
    pending_stop_deadline,  \* LiveTask.pending_stop_deadline
    fetcher,                \* LiveTask.fetcher
    ws_thread,              \* LiveTask.ws_thread
    out_file,               \* LiveTask.out_file
    mpc,                    \* position of LiveTask.run
    last,                   \* what the latest iteration of LiveTask.run saw and did
    streak,                 \* the offline polls since the room was last seen capturing
    s_room,                 \* the room a DanmuFetcher was created for
    _running,               \* DanmuFetcher._running
    ws,                     \* DanmuFetcher.ws
    pc,                     \* position of the thread running DanmuFetcher.start
    hb,                     \* position of the thread running _send_heartbeat
    cur,                    \* the latest frame read from the connection
    sent,                   \* ack frames sent since the latest frame was read
    ncalls,                 \* invocations of on_chat
    file_open,              \* the file opened by start_fetch is open
    sink,                   \* records written to that file
    nrecv,                  \* frames pushed by the platform so far
    script_pos,             \* how far the frames so far follow EndToEndScript
    main_pc,                \* position of main
    main_todo,              \* tasks main has still to stop
    delay_default,          \* main: delay_default, the configured loop time
    waited,                 \* seconds the latest wait of LiveTask.run slept
    ts,                     \* normalize_ts_ms: the raw timestamp, in decimal digits
    ts_ms,                  \* normalize_ts_ms: the value returned
    rep_pc,                 \* position of the thread running display_info
    rep_todo,               \* tasks the scan of display_info has still to read
    rep_count,              \* the sum display_info has built so far
    rep_seen                \* numbers of running rooms there were during the scan

mvars == <<running, stop_flag, live_id, pending_stop_deadline, fetcher,
           ws_thread, out_file, mpc, last, streak>>
svars == <<s_room, _running, ws, pc, hb>>
fvars == <<cur, sent, ncalls, sink, nrecv, script_pos>>
tvars == <<ts, ts_ms>>
rvars == <<rep_pc, rep_todo, rep_count>>
avars == <<delay_default, waited, tvars, rvars, rep_seen>>
vars == <<tasks, clock, ticks, mvars, svars, fvars, file_open, main_pc, main_todo,
          avars>>

NoIter == [state |-> "NONE", reply |-> "none", now |-> 0, start |-> "none",
           stopped |-> FALSE]
NoStreak == [first |-> None, stops |-> 0]

InitRest ==
    /\ clock = StartTime
    /\ ticks = 0
    /\ running = [r \in Rooms |-> FALSE]
    /\ stop_flag = [r \in Rooms |-> FALSE]
    /\ live_id \in [Rooms -> BOOLEAN]
    /\ \A r \in Rooms \ tasks : live_id[r] = FALSE
    /\ pending_stop_deadline = [r \in Rooms |-> None]
    /\ fetcher = [r \in Rooms |-> None]
    /\ ws_thread = [r \in Rooms |-> None]
    /\ out_file = [r \in Rooms |-> None]
    /\ mpc = [r \in Rooms |-> "loop"]
    /\ last = [r \in Rooms |-> NoIter]
    /\ streak = [r \in Rooms |-> NoStreak]
    /\ s_room = [s \in Sessions |-> None]
    /\ _running = [s \in Sessions |-> FALSE]
    /\ ws = [s \in Sessions |-> "none"]
    /\ pc = [s \in Sessions |-> "unborn"]
    /\ hb = [s \in Sessions |-> "none"]
    /\ cur = [s \in Sessions |-> NoFrame]
    /\ sent = [s \in Sessions |-> <<>>]
    /\ ncalls = [s \in Sessions |-> 0]
    /\ file_open = [s \in Sessions |-> FALSE]
    /\ sink = [s \in Sessions |-> <<>>]
    /\ nrecv = 0
    /\ script_pos = 0
    /\ main_pc = "run"
    /\ main_todo = {}
    /\ waited = [r \in Rooms |-> 0]
    /\ rep_pc = "idle"
    /\ rep_todo = {}
    /\ rep_count = 0
    /\ rep_seen = {}

\* No timestamp is being normalized.
InitNoTs ==
    /\ ts = NoTs
    /\ ts_ms = NoTs

Init ==
    /\ tasks = {1}
    /\ delay_default = DefaultLoopTime
    /\ InitRest
    /\ InitNoTs

(***************************************************************************)
(* LiveTask.run, one iteration.                                            *)
(***************************************************************************)
ProbeReplies == {"error", "nonjson", "status2", "status_other"}
StartOutcomes == {"ok", "mkdir_fails", "open_fails"}

\* fetch_live_status with the request wrapped in the try: a failed request is
\* reported offline instead of raising.
fetch_live_status_swallow(lid, reply) ==
    IF ~lid THEN [raised |-> FALSE, is_live |-> FALSE]
    ELSE [raised |-> FALSE, is_live |-> (reply = "status2")]

\* fetch_live_status: an empty live_id is reported offline without a request;
\* a failed request raises; a body that is not JSON is reported offline;
\* otherwise the room is live when its status is 2.
fetch_live_status(lid, reply) ==
    IF ~lid THEN [raised |-> FALSE, is_live |-> FALSE]
    ELSE IF reply = "error" THEN [raised |-> TRUE, is_live |-> FALSE]
    ELSE [raised |-> FALSE, is_live |-> (reply = "status2")]

\* The state of a room monitor as the spec names it.
RoomState(run, deadline) ==
    IF run THEN (IF deadline = None THEN "CAPTURING" ELSE "GRACE")
    ELSE (IF deadline = None THEN "IDLE" ELSE "STALE")

StateOf(r) == RoomState(running[r], pending_stop_deadline[r])

FreeSessions == {s \in Sessions : s_room[s] = None}
NewSession == CHOOSE s \in FreeSessions : \A t \in FreeSessions : s <= t

\* DanmuFetcher.stop with the flag flipped instead of cleared.
StopRunning_toggle(f) == IF f = None THEN _running ELSE [_running EXCEPT ![f] = ~@]

\* DanmuFetcher.stop on fetcher f (None: LiveTask.fetcher is None).
StopRunning(f) == IF f = None THEN _running ELSE [_running EXCEPT ![f] = FALSE]
StopWs(f) ==
    IF f = None THEN ws
    ELSE [ws EXCEPT ![f] = IF @ \in {"open", "halfopen", "lost"}
                           THEN "closed" ELSE @]

\* The end of stop_fetch: out_file.close() when the attribute exists.
CloseFile(r) ==
    IF out_file[r] = None THEN file_open
    ELSE [file_open EXCEPT ![out_file[r]] = FALSE]

LoopCheck(r) ==
    /\ main_pc # "done"
    /\ r \in tasks
    /\ mpc[r] = "loop"
    /\ mpc' = [mpc EXCEPT ![r] = IF stop_flag[r] THEN "exit" ELSE "probe"]
    /\ UNCHANGED <<tasks, avars, clock, ticks, running, stop_flag, live_id,
                   pending_stop_deadline, fetcher, ws_thread, out_file, last,
                   streak, svars, fvars, file_open, main_pc, main_todo>>

\* What an iteration records: the state it found, the reply of the probe, the
\* time, how the session start went and whether it stopped the session.
Seen(r, reply, so, stopping) ==
    [state |-> StateOf(r), reply |-> reply, now |-> clock, start |-> so,
     stopped |-> stopping]

\* The probe raised: the except clause of run, nothing else changes.
IterateError(r, reply) ==
    /\ mpc' = [mpc EXCEPT ![r] = "sleep"]
    /\ last' = [last EXCEPT ![r] = Seen(r, reply, "none", FALSE)]
    /\ streak' = [streak EXCEPT ![r] = NoStreak]
    /\ UNCHANGED <<running, live_id, pending_stop_deadline, fetcher, ws_thread,
                   out_file, svars, file_open>>

\* IterateLive without lines 422-423: the deadline survives a live poll.
IterateLive_keepdeadline(r, reply, lid, so) ==
    LET starting == ~running[r] /\ lid
        s == NewSession
    IN  /\ starting => FreeSessions # {}
        /\ live_id' = [live_id EXCEPT ![r] = lid]
        /\ UNCHANGED pending_stop_deadline
        /\ mpc' = [mpc EXCEPT ![r] = "sleep"]
        /\ last' = [last EXCEPT ![r] =
                      Seen(r, reply, IF starting THEN so ELSE "none", FALSE)]
        /\ streak' = [streak EXCEPT ![r] = NoStreak]
        /\ IF starting /\ so # "mkdir_fails"
           THEN /\ running' = [running EXCEPT ![r] = TRUE]
                /\ fetcher' = [fetcher EXCEPT ![r] = s]
                /\ s_room' = [s_room EXCEPT ![s] = r]
                /\ IF so = "ok"
                   THEN /\ file_open' = [file_open EXCEPT ![s] = TRUE]
                        /\ ws_thread' = [ws_thread EXCEPT ![r] = s]
                        /\ out_file' = [out_file EXCEPT ![r] = s]
                        /\ pc' = [pc EXCEPT ![s] = "start"]
                   ELSE /\ pc' = [pc EXCEPT ![s] = "nothread"]
                        /\ UNCHANGED <<file_open, ws_thread, out_file>>
           ELSE UNCHANGED <<running, fetcher, s_room, file_open, ws_thread,
                            out_file, pc>>
        /\ UNCHANGED <<_running, ws, hb>>

\* is_live: clear the deadline, start a session when none is recorded.
IterateLive(r, reply, lid, so) ==
    LET starting == ~running[r] /\ lid
        s == NewSession
    IN  /\ starting => FreeSessions # {}
        /\ live_id' = [live_id EXCEPT ![r] = lid]
        /\ pending_stop_deadline' = [pending_stop_deadline EXCEPT ![r] = None]
        /\ mpc' = [mpc EXCEPT ![r] = "sleep"]
        /\ last' = [last EXCEPT ![r] =
                      Seen(r, reply, IF starting THEN so ELSE "none", FALSE)]
        /\ streak' = [streak EXCEPT ![r] = NoStreak]
        /\ IF starting /\ so # "mkdir_fails"
           THEN /\ running' = [running EXCEPT ![r] = TRUE]
                /\ fetcher' = [fetcher EXCEPT ![r] = s]
                /\ s_room' = [s_room EXCEPT ![s] = r]
                /\ IF so = "ok"
                   THEN /\ file_open' = [file_open EXCEPT ![s] = TRUE]
                        /\ ws_thread' = [ws_thread EXCEPT ![r] = s]
                        /\ out_file' = [out_file EXCEPT ![r] = s]
                        /\ pc' = [pc EXCEPT ![s] = "start"]
                   ELSE /\ pc' = [pc EXCEPT ![s] = "nothread"]
                        /\ UNCHANGED <<file_open, ws_thread, out_file>>
           ELSE UNCHANGED <<running, fetcher, s_room, file_open, ws_thread,
                            out_file, pc>>
        /\ UNCHANGED <<_running, ws, hb>>

\* IterateOffline with > for >= at line 433.
IterateOffline_strict(r, reply, lid) ==
    LET expired == pending_stop_deadline[r] # None /\ clock > pending_stop_deadline[r]
        stopping == running[r] /\ expired
    IN  /\ live_id' = [live_id EXCEPT ![r] = lid]
        /\ last' = [last EXCEPT ![r] = Seen(r, reply, "none", stopping)]
        /\ streak' = [streak EXCEPT ![r] =
                        IF StateOf(r) = "CAPTURING" THEN [first |-> clock, stops |-> 0]
                        ELSE IF @.first # None /\ stopping
                             THEN [@ EXCEPT !.stops = @ + 1]
                        ELSE @]
        /\ pending_stop_deadline' =
             [pending_stop_deadline EXCEPT ![r] =
                IF ~running[r] THEN @
                ELSE IF @ = None THEN clock + grace_stop_seconds
                ELSE IF clock > @ THEN None ELSE @]
        /\ running' = [running EXCEPT ![r] = IF stopping THEN FALSE ELSE @]
        /\ _running' = IF stopping THEN StopRunning(fetcher[r]) ELSE _running
        /\ ws' = IF stopping THEN StopWs(fetcher[r]) ELSE ws
        /\ mpc' = [mpc EXCEPT ![r] = IF stopping THEN "join" ELSE "sleep"]
        /\ UNCHANGED <<fetcher, ws_thread, out_file, s_room, pc, hb, file_open>>

\* IterateOffline without the test of line 429: every offline poll sets the
\* deadline anew.
IterateOffline_rearm(r, reply, lid) ==
    LET expired == FALSE
        stopping == running[r] /\ expired
    IN  /\ live_id' = [live_id EXCEPT ![r] = lid]
        /\ last' = [last EXCEPT ![r] = Seen(r, reply, "none", stopping)]
        /\ streak' = [streak EXCEPT ![r] =
                        IF StateOf(r) = "CAPTURING" THEN [first |-> clock, stops |-> 0]
                        ELSE IF @.first # None /\ stopping
                             THEN [@ EXCEPT !.stops = @ + 1]
                        ELSE @]
        /\ pending_stop_deadline' =
             [pending_stop_deadline EXCEPT ![r] =
                IF ~running[r] THEN @
                ELSE clock + grace_stop_seconds]
        /\ running' = [running EXCEPT ![r] = IF stopping THEN FALSE ELSE @]
        /\ _running' = IF stopping THEN StopRunning(fetcher[r]) ELSE _running
        /\ ws' = IF stopping THEN StopWs(fetcher[r]) ELSE ws
        /\ mpc' = [mpc EXCEPT ![r] = IF stopping THEN "join" ELSE "sleep"]
        /\ UNCHANGED <<fetcher, ws_thread, out_file, s_room, pc, hb, file_open>>

\* not is_live: nothing when idle; open the grace window; stop at its end.
IterateOffline(r, reply, lid) ==
    LET expired == pending_stop_deadline[r] # None /\ clock >= pending_stop_deadline[r]
        stopping == running[r] /\ expired
    IN  /\ live_id' = [live_id EXCEPT ![r] = lid]
        /\ last' = [last EXCEPT ![r] = Seen(r, reply, "none", stopping)]
        /\ streak' = [streak EXCEPT ![r] =
                        IF StateOf(r) = "CAPTURING" THEN [first |-> clock, stops |-> 0]
                        ELSE IF @.first # None /\ stopping
                             THEN [@ EXCEPT !.stops = @ + 1]
                        ELSE @]
        /\ pending_stop_deadline' =
             [pending_stop_deadline EXCEPT ![r] =
                IF ~running[r] THEN @
                ELSE IF @ = None THEN clock + grace_stop_seconds
                ELSE IF clock >= @ THEN None ELSE @]
        /\ running' = [running EXCEPT ![r] = IF stopping THEN FALSE ELSE @]
        /\ _running' = IF stopping THEN StopRunning(fetcher[r]) ELSE _running
        /\ ws' = IF stopping THEN StopWs(fetcher[r]) ELSE ws
        /\ mpc' = [mpc EXCEPT ![r] = IF stopping THEN "join" ELSE "sleep"]
        /\ UNCHANGED <<fetcher, ws_thread, out_file, s_room, pc, hb, file_open>>

\* The rooms whose running flag is set, and the record of how many there
\* were at each moment of a scan of display_info.
RunningCount == Cardinality({r \in tasks : running[r]})
Observed ==
    rep_seen' = IF rep_pc = "scan" /\ rep_todo # {}
                THEN rep_seen \cup {RunningCount'} ELSE rep_seen

Iterate(r) ==
    /\ main_pc # "done"
    /\ r \in tasks
    /\ mpc[r] = "probe"
    /\ \E reply \in ProbeReplies, resolved \in BOOLEAN, so \in StartOutcomes :
         LET status == fetch_live_status(live_id[r], reply)
             got == IF live_id[r] THEN reply ELSE "norequest"
             lid == live_id[r] \/ resolved
         IN  IF status.raised THEN IterateError(r, got)
             ELSE IF status.is_live THEN IterateLive(r, got, lid, so)
             ELSE IterateOffline(r, got, lid)
    /\ UNCHANGED <<tasks, delay_default, waited, tvars, rvars, clock, ticks,
                   stop_flag, fvars, main_pc, main_todo>>
    /\ Observed

\* stop_fetch after fetcher.stop(): the bounded join returns, the file is closed.
Join(r) ==
    /\ main_pc # "done"
    /\ mpc[r] = "join"
    /\ file_open' = CloseFile(r)
    /\ mpc' = [mpc EXCEPT ![r] = "sleep"]
    /\ UNCHANGED <<tasks, avars, clock, ticks, running, stop_flag, live_id,
                   pending_stop_deadline, fetcher, ws_thread, out_file, last,
                   streak, svars, fvars, main_pc, main_todo>>

\* The seconds the sleep loop waits: one per iteration, sleep_time counting
\* down from the loop time d, none once the stop flag is set.
Slept(d, stopping) == IF stopping \/ d <= 0 THEN 0 ELSE d

\* The wait between two polls.
Sleep(r) ==
    /\ main_pc # "done"
    /\ mpc[r] = "sleep"
    /\ mpc' = [mpc EXCEPT ![r] = "loop"]
    /\ waited' = [waited EXCEPT ![r] = Slept(delay_default, stop_flag[r])]
    /\ UNCHANGED <<tasks, delay_default, tvars, rvars, rep_seen, clock, ticks, running, stop_flag, live_id,
                   pending_stop_deadline, fetcher, ws_thread, out_file, last,
                   streak, svars, fvars, file_open, main_pc, main_todo>>

\* Time passes.
Tick ==
    /\ main_pc # "done"
    /\ ticks < MaxTicks
    /\ ticks' = ticks + 1
    /\ clock' = clock + TimeStep
    /\ UNCHANGED <<tasks, avars, mvars, svars, fvars, file_open, main_pc, main_todo>>

(***************************************************************************)
(* DanmuFetcher.start on its own thread, and the connection.               *)
(***************************************************************************)
\* Line 188: the first statement of start.
ThreadStart(s) ==
    /\ main_pc # "done"
    /\ pc[s] = "start"
    /\ _running' = [_running EXCEPT ![s] = TRUE]
    /\ pc' = [pc EXCEPT ![s] = "sign"]
    /\ UNCHANGED <<tasks, avars, clock, ticks, mvars, s_room, ws, hb, fvars, file_open,
                   main_pc, main_todo>>

\* Lines 189-217: room_id, generate_signature and ttwid may raise, which ends
\* the thread outside the try; otherwise the WebSocketApp is built.
Sign(s) ==
    /\ main_pc # "done"
    /\ pc[s] = "sign"
    /\ \E ok \in BOOLEAN :
         IF ok THEN /\ ws' = [ws EXCEPT ![s] = "created"]
                    /\ pc' = [pc EXCEPT ![s] = "connect"]
         ELSE /\ pc' = [pc EXCEPT ![s] = "dead"]
              /\ UNCHANGED ws
    /\ UNCHANGED <<tasks, avars, clock, ticks, mvars, s_room, _running, hb, fvars,
                   file_open, main_pc, main_todo>>

\* Lines 218-221: run_forever connects and calls _on_open, or fails to connect
\* and returns through the finally clause.
Connect(s) ==
    /\ main_pc # "done"
    /\ pc[s] = "connect"
    /\ \E ok \in BOOLEAN :
         IF ok THEN /\ ws' = [ws EXCEPT ![s] = "open"]
                    /\ hb' = [hb EXCEPT ![s] = "test"]
                    /\ pc' = [pc EXCEPT ![s] = "recv"]
                    /\ UNCHANGED _running
         ELSE /\ _running' = [_running EXCEPT ![s] = FALSE]
              /\ pc' = [pc EXCEPT ![s] = "done"]
              /\ UNCHANGED <<ws, hb>>
    /\ UNCHANGED <<tasks, avars, clock, ticks, mvars, s_room, fvars, file_open,
                   main_pc, main_todo>>

\* The peer or a transport error ends the connection; the session has yet to
\* notice.
PeerClose(s) ==
    /\ main_pc # "done"
    /\ ws[s] \in {"open", "halfopen"}
    /\ ws' = [ws EXCEPT ![s] = "lost"]
    /\ UNCHANGED <<tasks, avars, clock, ticks, mvars, s_room, _running, pc, hb, fvars,
                   file_open, main_pc, main_todo>>

\* The sending side of an open connection fails (a write error or a write
\* timeout of the socket): ws.send raises from now on while frames still
\* arrive and run_forever goes on.
WriteBreak(s) ==
    /\ main_pc # "done"
    /\ ws[s] = "open"
    /\ ws' = [ws EXCEPT ![s] = "halfopen"]
    /\ UNCHANGED <<tasks, avars, clock, ticks, mvars, s_room, _running, pc, hb, fvars,
                   file_open, main_pc, main_todo>>

\* What ws.send can do: it succeeds on an open connection, raises on one
\* closed by ws.close() or whose sending side failed, and does either on one
\* the peer has ended.
SendOutcomes(w) ==
    IF w = "open" THEN {TRUE} ELSE IF w = "lost" THEN BOOLEAN ELSE {FALSE}

\* run_forever returns once the connection is closed; finally: _running = False.
LoopExit(s) ==
    /\ main_pc # "done"
    /\ pc[s] = "recv"
    /\ ws[s] \in {"lost", "closed"}
    /\ _running' = [_running EXCEPT ![s] = FALSE]
    /\ pc' = [pc EXCEPT ![s] = "done"]
    /\ UNCHANGED <<tasks, avars, clock, ticks, mvars, s_room, ws, hb, fvars, file_open,
                   main_pc, main_todo>>

\* _send_heartbeat: the loop test, then the send and the sleep.
HeartbeatTest(s) ==
    /\ main_pc # "done"
    /\ hb[s] = "test"
    /\ hb' = [hb EXCEPT ![s] = IF _running[s] THEN "send" ELSE "done"]
    /\ UNCHANGED <<tasks, avars, clock, ticks, mvars, s_room, _running, ws, pc, fvars,
                   file_open, main_pc, main_todo>>

HeartbeatSend(s) ==
    /\ main_pc # "done"
    /\ hb[s] = "send"
    /\ \E sendok \in SendOutcomes(ws[s]) :
         hb' = [hb EXCEPT ![s] = IF sendok THEN "test" ELSE "failed"]
    /\ UNCHANGED <<tasks, avars, clock, ticks, mvars, s_room, _running, ws, pc, fvars,
                   file_open, main_pc, main_todo>>

(***************************************************************************)
(* _on_message and on_chat.                                                *)
(***************************************************************************)
Record(m) == [user_name |-> "u1", content |-> m.payload]

\* Dispatch with break for continue at line 252: a message that fails to
\* decode ends the batch.
RECURSIVE Dispatch_break(_, _, _)
Dispatch_break(msgs, i, fopen) ==
    IF i > Len(msgs) THEN [calls |-> 0, records |-> <<>>]
    ELSE LET m == msgs[i]
             rest == Dispatch_break(msgs, i + 1, fopen)
         IN  IF m.method # ChatMethod THEN rest
             ELSE IF m.payload = Undecodable THEN [calls |-> 0, records |-> <<>>]
             ELSE [calls |-> rest.calls + 1,
                   records |-> IF fopen THEN <<Record(m)>> \o rest.records
                               ELSE rest.records]

\* Lines 245-252 from message i on: the on_chat calls made and the records
\* written; a write to a closed file raises inside the try.
RECURSIVE Dispatch(_, _, _)
Dispatch(msgs, i, fopen) ==
    IF i > Len(msgs) THEN [calls |-> 0, records |-> <<>>]
    ELSE LET m == msgs[i]
             rest == Dispatch(msgs, i + 1, fopen)
         IN  IF m.method # ChatMethod THEN rest
             ELSE IF m.payload = Undecodable THEN rest
             ELSE [calls |-> rest.calls + 1,
                   records |-> IF fopen THEN <<Record(m)>> \o rest.records
                               ELSE rest.records]

\* Ack without line 239: the ack carries the default log id.
Ack_nolog(f) == [log_id |-> 0, payload_type |-> "ack", payload |-> f.internal_ext]

Ack(f) == [log_id |-> f.log_id, payload_type |-> "ack", payload |-> f.internal_ext]

Reverse(q) == [i \in 1..Len(q) |-> q[Len(q) + 1 - i]]

\* _on_message with the loop of line 245 over reversed(response.messages_list).
on_message_reversed(f, sendok, fopen) ==
    IF f.kind # "ok" THEN [acks |-> <<>>, calls |-> 0, records |-> <<>>]
    ELSE IF f.need_ack /\ ~sendok THEN [acks |-> <<>>, calls |-> 0, records |-> <<>>]
    ELSE LET d == Dispatch(Reverse(f.messages_list), 1, fopen)
         IN  [acks |-> IF f.need_ack THEN <<Ack(f)>> ELSE <<>>,
              calls |-> d.calls, records |-> d.records]

\* _on_message on frame f: parse and decompress raise on a bad frame; the ack
\* send may raise (sendok false); then the dispatch loop.
on_message(f, sendok, fopen) ==
    IF f.kind # "ok" THEN [acks |-> <<>>, calls |-> 0, records |-> <<>>]
    ELSE IF f.need_ack /\ ~sendok THEN [acks |-> <<>>, calls |-> 0, records |-> <<>>]
    ELSE LET d == Dispatch(f.messages_list, 1, fopen)
         IN  [acks |-> IF f.need_ack THEN <<Ack(f)>> ELSE <<>>,
              calls |-> d.calls, records |-> d.records]

EndToEndScript ==
    << [kind |-> "ok", messages_list |-> <<[method |-> ChatMethod, payload |-> "hello"]>>],
       [kind |-> "ok", messages_list |-> <<[method |-> "WebcastGiftMessage", payload |-> "hello"]>>],
       [kind |-> "malformed", messages_list |-> <<>>] >>

Follows(f, k) ==
    /\ k <= Len(EndToEndScript)
    /\ f.kind = EndToEndScript[k].kind
    /\ f.messages_list = EndToEndScript[k].messages_list

\* The connection delivers a frame of F to the receive loop.
RecvFrom(s, F) ==
    /\ main_pc # "done"
    /\ pc[s] = "recv"
    /\ ws[s] \in {"open", "halfopen"}
    /\ nrecv < MaxFrames
    /\ \E f \in F :
         /\ cur' = [cur EXCEPT ![s] = f]
         /\ script_pos' = IF script_pos = nrecv /\ Follows(f, nrecv + 1)
                             /\ \A t \in Sessions \ {s} : sink[t] = <<>> /\ ncalls[t] = 0
                          THEN nrecv + 1 ELSE -1
    /\ nrecv' = nrecv + 1
    /\ sent' = [sent EXCEPT ![s] = <<>>]
    /\ pc' = [pc EXCEPT ![s] = "handle"]
    /\ UNCHANGED <<tasks, avars, clock, ticks, mvars, s_room, _running, ws, hb, ncalls,
                   sink, file_open, main_pc, main_todo>>

\* Any frame.
Recv(s) == RecvFrom(s, Frames)

\* Frames of a conversation: chat messages of two different contents, in both
\* orders and alone.
Hello == [method |-> ChatMethod, payload |-> "hello"]
World == [method |-> ChatMethod, payload |-> "world"]
TalkFrame(ack, msgs) ==
    [kind |-> "ok", log_id |-> 11, need_ack |-> ack, internal_ext |-> "x",
     messages_list |-> msgs]
TalkFrames ==
    {TalkFrame(FALSE, <<Hello, World>>),
     TalkFrame(TRUE, <<World, Hello>>),
     TalkFrame(FALSE, <<World>>)}

RecvTalk(s) == RecvFrom(s, TalkFrames)

\* on_chat writing to self.out_file, the file the room holds now.
FileOf_current(s) == out_file[s_room[s]]

\* The file on_chat of session s writes to: the local out_file of the
\* start_fetch call that made the session, which the closure keeps.
FileOf(s) == s

\* Handle with the exception of the callback left to end run_forever.
Handle_fatal(s) ==
    /\ main_pc # "done"
    /\ pc[s] = "handle"
    /\ \E sendok \in SendOutcomes(ws[s]) :
         LET h == on_message(cur[s], sendok, file_open[FileOf(s)])
         IN  /\ sent' = [sent EXCEPT ![s] = @ \o h.acks]
             /\ ncalls' = [ncalls EXCEPT ![s] = @ + h.calls]
             /\ sink' = [sink EXCEPT ![FileOf(s)] = @ \o h.records]
    /\ IF cur[s].kind = "ok"
       THEN /\ pc' = [pc EXCEPT ![s] = "recv"]
            /\ UNCHANGED _running
       ELSE /\ pc' = [pc EXCEPT ![s] = "done"]
            /\ _running' = [_running EXCEPT ![s] = FALSE]
    /\ UNCHANGED <<tasks, avars, clock, ticks, mvars, s_room, ws, hb, cur, nrecv,
                   script_pos, file_open, main_pc, main_todo>>

\* The on_message callback runs; an exception it raises is caught by the
\* caller and the receive loop goes on.
Handle(s) ==
    /\ main_pc # "done"
    /\ pc[s] = "handle"
    /\ \E sendok \in SendOutcomes(ws[s]) :
         LET h == on_message(cur[s], sendok, file_open[FileOf(s)])
         IN  /\ sent' = [sent EXCEPT ![s] = @ \o h.acks]
             /\ ncalls' = [ncalls EXCEPT ![s] = @ + h.calls]
             /\ sink' = [sink EXCEPT ![FileOf(s)] = @ \o h.records]
    /\ pc' = [pc EXCEPT ![s] = "recv"]
    /\ UNCHANGED <<tasks, avars, clock, ticks, mvars, s_room, _running, ws, hb, cur,
                   nrecv, script_pos, file_open, main_pc, main_todo>>

(***************************************************************************)
(* main: the shutdown path.                                                *)
(***************************************************************************)
NextTask == CHOOSE r \in main_todo : \A q \in main_todo : r <= q

KeyboardInterrupt ==
    /\ main_pc = "run"
    /\ main_pc' = "stop"
    /\ main_todo' = tasks
    /\ UNCHANGED <<tasks, avars, clock, ticks, mvars, svars, fvars, file_open>>

\* t.stop_flag = True, then stop_fetch up to fetcher.stop().
MainStop ==
    /\ main_pc = "stop"
    /\ LET r == NextTask
       IN  /\ stop_flag' = [stop_flag EXCEPT ![r] = TRUE]
           /\ running' = [running EXCEPT ![r] = FALSE]
           /\ _running' = StopRunning(fetcher[r])
           /\ ws' = StopWs(fetcher[r])
    /\ main_pc' = "join"
    /\ UNCHANGED <<tasks, delay_default, waited, tvars, rvars, clock, ticks,
                   live_id, pending_stop_deadline, fetcher, ws_thread, out_file,
                   mpc, last, streak, s_room, pc, hb, fvars, file_open, main_todo>>
    /\ Observed

\* The rest of stop_fetch: the bounded join returns, the file is closed.
MainJoin ==
    /\ main_pc = "join"
    /\ file_open' = CloseFile(NextTask)
    /\ main_todo' = main_todo \ {NextTask}
    /\ main_pc' = IF main_todo' = {} THEN "wait" ELSE "stop"
    /\ UNCHANGED <<tasks, avars, clock, ticks, mvars, svars, fvars>>

\* The bounded joins of lines 514-516 return and the process exits.
MainExit ==
    /\ main_pc = "wait"
    /\ main_pc' = "done"
    /\ UNCHANGED <<tasks, avars, clock, ticks, mvars, svars, fvars, file_open, main_todo>>

(***************************************************************************)
(* display_info on its own thread: the sum over the tasks reads the        *)
(* running flag of one task at a time.                                     *)
(***************************************************************************)
NextRead == CHOOSE r \in rep_todo : \A q \in rep_todo : r <= q

\* stop_event is not set: the generator over tasks starts.
ReportBegin ==
    /\ main_pc = "run"
    /\ rep_pc = "idle"
    /\ rep_pc' = "scan"
    /\ rep_todo' = tasks
    /\ rep_count' = 0
    /\ rep_seen' = {RunningCount}
    /\ UNCHANGED <<tasks, clock, ticks, mvars, svars, fvars, file_open, main_pc,
                   main_todo, delay_default, waited, tvars>>

\* The generator reads t.running of the next task.
ReportRead ==
    /\ main_pc # "done"
    /\ rep_pc = "scan"
    /\ rep_todo # {}
    /\ rep_count' = rep_count + (IF running[NextRead] THEN 1 ELSE 0)
    /\ rep_todo' = rep_todo \ {NextRead}
    /\ UNCHANGED <<tasks, clock, ticks, mvars, svars, fvars, file_open, main_pc,
                   main_todo, delay_default, waited, tvars, rep_pc, rep_seen>>

\* The line is printed and the thread sleeps 5 seconds.
ReportPrint ==
    /\ main_pc # "done"
    /\ rep_pc = "scan"
    /\ rep_todo = {}
    /\ rep_pc' = "idle"
    /\ rep_count' = 0
    /\ rep_seen' = {}
    /\ UNCHANGED <<tasks, clock, ticks, mvars, svars, fvars, file_open, main_pc,
                   main_todo, delay_default, waited, tvars, rep_todo>>

(***************************************************************************)
(* normalize_ts_ms.  Python integers are unbounded; a timestamp is the     *)
(* sequence of its decimal digits, most significant first, <<0>> for zero. *)
(***************************************************************************)
Zeros(n) == [i \in 1..n |-> 0]
Pow10(n) == <<1>> \o Zeros(n)

\* a < b
LessThan(a, b) ==
    \/ Len(a) < Len(b)
    \/ /\ Len(a) = Len(b)
       /\ \E i \in 1..Len(a) :
             a[i] < b[i] /\ \A j \in 1..(i - 1) : a[j] = b[j]

\* a * 10^n and a // 10^n
TimesPow10(a, n) == IF a = <<0>> THEN a ELSE a \o Zeros(n)
FloorDivPow10(a, n) == IF Len(a) <= n THEN <<0>> ELSE SubSeq(a, 1, Len(a) - n)

\* normalize_ts_ms with <= in the first comparison.
normalize_ts_ms_inclusive(t) ==
    IF ~LessThan(Pow10(10), t) THEN TimesPow10(t, 3)
    ELSE IF LessThan(t, Pow10(13)) THEN t
    ELSE IF LessThan(t, Pow10(16)) THEN FloorDivPow10(t, 3)
    ELSE FloorDivPow10(t, 6)

normalize_ts_ms(t) ==
    IF LessThan(t, Pow10(10)) THEN TimesPow10(t, 3)
    ELSE IF LessThan(t, Pow10(13)) THEN t
    ELSE IF LessThan(t, Pow10(16)) THEN FloorDivPow10(t, 3)
    ELSE FloorDivPow10(t, 6)

\* Raw timestamps of every length: the powers of ten, the numbers just
\* below them, 16 followed by zeros, 15 and 19 followed by nines and sevens.
Nines(n) == [i \in 1..n |-> 9]
TsInputs ==
    {<<0>>}
    \cup {Pow10(n - 1) : n \in 1..MaxDigits}
    \cup {Nines(n) : n \in 1..MaxDigits}
    \cup {<<1, 6>> \o Zeros(n - 2) : n \in 2..MaxDigits}
    \cup {<<1, 5>> \o Nines(n - 2) : n \in 2..MaxDigits}
    \cup {<<1, 9>> \o [i \in 1..(n - 2) |-> 7] : n \in 2..MaxDigits}

\* on_chat normalizes a timestamp of the message.
NormalizeTs ==
    /\ ts # NoTs
    /\ ts_ms = NoTs
    /\ ts_ms' = normalize_ts_ms(ts)
    /\ UNCHANGED <<tasks, clock, ticks, mvars, svars, fvars, file_open, main_pc,
                   main_todo, delay_default, waited, ts, rvars, rep_seen>>

\* The room monitors, the receive threads of their sessions, the clock and
\* the shutdown.
Next ==
    \/ \E r \in Rooms : LoopCheck(r)
    \/ \E r \in Rooms : Iterate(r)
    \/ \E r \in Rooms : Join(r)
    \/ \E r \in Rooms : Sleep(r)
    \/ Tick
    \/ \E s \in Sessions : ThreadStart(s)
    \/ \E s \in Sessions : Sign(s)
    \/ \E s \in Sessions : Connect(s)
    \/ \E s \in Sessions : PeerClose(s)
    \/ \E s \in Sessions : LoopExit(s)
    \/ KeyboardInterrupt
    \/ MainStop
    \/ MainJoin
    \/ MainExit

Spec == Init /\ [][Next]_vars

\* The threads of a session: the monitor starts sessions, each runs its
\* receive loop and its heartbeat loop until the peer or the shutdown ends it.
NextSession ==
    \/ \E r \in Rooms : LoopCheck(r)
    \/ \E r \in Rooms : Iterate(r)
    \/ \E r \in Rooms : Sleep(r)
    \/ \E s \in Sessions : ThreadStart(s)
    \/ \E s \in Sessions : Sign(s)
    \/ \E s \in Sessions : Connect(s)
    \/ \E s \in Sessions : PeerClose(s)
    \/ \E s \in Sessions : WriteBreak(s)
    \/ \E s \in Sessions : LoopExit(s)
    \/ \E s \in Sessions : HeartbeatTest(s)
    \/ \E s \in Sessions : HeartbeatSend(s)
    \/ KeyboardInterrupt
    \/ MainStop
    \/ MainJoin
    \/ MainExit

SpecSession == Init /\ [][NextSession]_vars

\* Timestamp normalization on its own: any raw timestamp, normalized once.
InitTs ==
    /\ tasks = {1}
    /\ delay_default = DefaultLoopTime
    /\ InitRest
    /\ ts \in TsInputs
    /\ ts_ms = NoTs

NextTs == NormalizeTs

SpecTs == InitTs /\ [][NextTs]_vars

\* The polling of one room under any configured loop time.
LoopTimes == {-1, 0, 1, DefaultLoopTime}

InitPoll ==
    /\ tasks = {1}
    /\ delay_default \in LoopTimes
    /\ InitRest
    /\ InitNoTs

NextPoll ==
    \/ \E r \in Rooms : LoopCheck(r)
    \/ \E r \in Rooms : Iterate(r)
    \/ \E r \in Rooms : Sleep(r)
    \/ KeyboardInterrupt
    \/ MainStop
    \/ MainJoin
    \/ MainExit

SpecPoll == InitPoll /\ [][NextPoll]_vars

\* The status line of two rooms whose ids are resolved, over one poll of each
\* room and the shutdown.
InitReport ==
    /\ tasks = Rooms
    /\ delay_default = DefaultLoopTime
    /\ InitRest
    /\ InitNoTs
    /\ \A r \in Rooms : live_id[r]

NextReport ==
    \/ \E r \in Rooms : LoopCheck(r)
    \/ \E r \in Rooms : Iterate(r)
    \/ ReportBegin
    \/ ReportRead
    \/ ReportPrint
    \/ KeyboardInterrupt
    \/ MainStop
    \/ MainJoin
    \/ MainExit

SpecReport == InitReport /\ [][NextReport]_vars

\* The traffic of a connection: a room whose id is resolved is monitored, its
\* session receives frames, and the connection ends by the peer or by shutdown.
InitFrames ==
    /\ tasks = {1}
    /\ delay_default = DefaultLoopTime
    /\ InitRest
    /\ InitNoTs
    /\ live_id[1]

NextFrames ==
    \/ \E r \in Rooms : LoopCheck(r)
    \/ \E r \in Rooms : Iterate(r)
    \/ \E s \in Sessions : ThreadStart(s)
    \/ \E s \in Sessions : Sign(s)
    \/ \E s \in Sessions : Connect(s)
    \/ \E s \in Sessions : PeerClose(s)
    \/ \E s \in Sessions : LoopExit(s)
    \/ \E s \in Sessions : Recv(s)
    \/ \E s \in Sessions : Handle(s)
    \/ KeyboardInterrupt
    \/ MainStop
    \/ MainJoin
    \/ MainExit

SpecFrames == InitFrames /\ [][NextFrames]_vars

\* Several polls with the frames of a conversation, on connections that
\* only the shutdown ends.
NextTalk ==
    \/ \E r \in Rooms : LoopCheck(r)
    \/ \E r \in Rooms : Iterate(r)
    \/ \E r \in Rooms : Sleep(r)
    \/ \E s \in Sessions : ThreadStart(s)
    \/ \E s \in Sessions : Sign(s)
    \/ \E s \in Sessions : Connect(s)
    \/ \E s \in Sessions : LoopExit(s)
    \/ \E s \in Sessions : RecvTalk(s)
    \/ \E s \in Sessions : Handle(s)
    \/ KeyboardInterrupt
    \/ MainStop
    \/ MainJoin
    \/ MainExit

SpecTalk == InitFrames /\ [][NextTalk]_vars

(***************************************************************************)
(* Properties of the room monitor.                                         *)
(***************************************************************************)
\* A step that is one iteration of LiveTask.run for room r.
IterateStep(r) == mpc[r] = "probe" /\ mpc'[r] # "probe"

\* The step leaves every session, and what room r records of its session,
\* as they were.
SessionKept(r) ==
    /\ UNCHANGED <<s_room, _running, ws, pc, hb, file_open>>
    /\ fetcher'[r] = fetcher[r]
    /\ ws_thread'[r] = ws_thread[r]
    /\ out_file'[r] = out_file[r]

\* The step starts a session for room r: a new DanmuFetcher with its own
\* thread and its own open file, no other session touched.
SessionStarted(r) ==
    LET s == fetcher'[r]
    IN  /\ s # None
        /\ s_room[s] = None
        /\ s_room'[s] = r
        /\ pc'[s] = "start"
        /\ ws_thread'[r] = s
        /\ out_file'[r] = s
        /\ file_open'[s]
        /\ \A t \in Sessions \ {s} :
              /\ pc'[t] = pc[t]
              /\ ws'[t] = ws[t]
              /\ _running'[t] = _running[t]
              /\ file_open'[t] = file_open[t]

\* The step begins stop_fetch for room r: the session is told to stop, its
\* connection is closed, and the monitor goes on to the join.
SessionStopped(r) ==
    /\ mpc'[r] = "join"
    /\ fetcher'[r] = fetcher[r]
    /\ pc' = pc
    /\ fetcher[r] # None =>
          ~_running'[fetcher[r]] /\ ws'[fetcher[r]] \notin {"open", "halfopen", "lost"}

Row(r) ==
    LET st == StateOf(r)
        live == last'[r].reply = "status2"
        deadline == pending_stop_deadline[r]
        same == /\ running'[r] = running[r]
                /\ pending_stop_deadline'[r] = deadline
                /\ mpc'[r] = "sleep"
                /\ SessionKept(r)
    IN  CASE st = "IDLE" /\ live /\ live_id'[r] ->
               /\ StateOf(r)' = "CAPTURING"
               /\ mpc'[r] = "sleep"
               /\ SessionStarted(r)
          [] st = "IDLE" /\ ~(live /\ live_id'[r]) -> same
          [] st = "CAPTURING" /\ live -> same
          [] st = "CAPTURING" /\ ~live ->
               /\ running'[r]
               /\ pending_stop_deadline'[r] = clock + grace_stop_seconds
               /\ mpc'[r] = "sleep"
               /\ SessionKept(r)
          [] st = "GRACE" /\ live ->
               /\ StateOf(r)' = "CAPTURING"
               /\ mpc'[r] = "sleep"
               /\ SessionKept(r)
          [] st = "GRACE" /\ ~live /\ clock < deadline -> same
          [] st = "GRACE" /\ ~live /\ clock >= deadline ->
               /\ StateOf(r)' = "IDLE"
               /\ SessionStopped(r)
          [] OTHER -> TRUE

\* C1: an iteration of LiveTask.run whose probe returns and whose session
\* start, if any, raises nothing takes the room from its state to the state
\* of the matching row of the transition table, with that row's side effect
\* (session started, session stopped, deadline set or cleared, or nothing).
C1_TransitionTable ==
    [][\A r \in Rooms :
          (/\ IterateStep(r)
           /\ last'[r].reply # "error"
           /\ last'[r].start \in {"none", "ok"}) => Row(r)]_vars

\* A room left the grace state by the deadline: the iteration found GRACE and
\* stopped the session.
C1_Witness ==
    \E r \in tasks :
       /\ last[r].state = "GRACE"
       /\ last[r].stopped
       /\ mpc[r] = "join"
       /\ StateOf(r) = "IDLE"
       /\ ~stop_flag[r]

\* A session of room r that has not ended: its thread is about to run or is
\* running start.
SessionAlive(s) == pc[s] \in {"start", "sign", "connect", "recv", "handle"}

\* C2: whenever the monitor of a room rests between two polls, a session of
\* the room is running (its thread alive and, once past line 188, _running
\* set) if and only if LiveTask.running is set.
C2_SessionIffCapturing ==
    \A r \in tasks :
       mpc[r] = "sleep" /\ ~stop_flag[r] =>
          ((\E s \in Sessions :
               /\ s_room[s] = r
               /\ SessionAlive(s)
               /\ pc[s] = "start" \/ _running[s])
           <=> running[r])

\* C3: while a room is in GRACE before its deadline, no step of the monitor
\* stops or touches the session, and the poll that sees the room live again
\* clears the deadline and leaves the room CAPTURING with the same session.
C3_GraceRecovery ==
    [][\A r \in Rooms :
          (/\ StateOf(r) = "GRACE"
           /\ clock < pending_stop_deadline[r]
           /\ ~stop_flag'[r])
          => /\ running'[r]
             /\ mpc'[r] # "join"
             /\ mpc'[r] # mpc[r] => SessionKept(r)
             /\ (IterateStep(r) /\ last'[r].reply = "status2")
                   => pending_stop_deadline'[r] = None]_vars

\* The recovering poll has happened: it found GRACE before the deadline, saw
\* the room live, and the session it kept is still receiving.
C3_Witness ==
    \E r \in tasks :
       /\ last[r].state = "GRACE"
       /\ last[r].now < StartTime + grace_stop_seconds
       /\ last[r].reply = "status2"
       /\ StateOf(r) = "CAPTURING"
       /\ fetcher[r] # None
       /\ pc[fetcher[r]] = "recv"
       /\ ws[fetcher[r]] = "open"

\* C4: in a run of offline polls that began with the room CAPTURING at time
\* first, the monitor has stopped the session at most once; it has not
\* stopped it exactly as long as every poll so far came before
\* first + grace window, and until then the deadline stays first + grace
\* window.
C4_StopOnceAtDeadline ==
    \A r \in tasks :
       streak[r].first # None /\ ~stop_flag[r] =>
          LET deadline == streak[r].first + grace_stop_seconds
          IN  /\ streak[r].stops <= 1
              /\ streak[r].stops = 0 <=> last[r].now < deadline
              /\ streak[r].stops = 0 =>
                    running[r] /\ pending_stop_deadline[r] = deadline
              /\ streak[r].stops = 1 => StateOf(r) = "IDLE"

\* The session was stopped once and a later poll, again offline, found the
\* room idle.
C4_Witness ==
    \E r \in tasks :
       /\ streak[r].first # None
       /\ streak[r].stops = 1
       /\ last[r].state = "IDLE"
       /\ last[r].reply \in {"nonjson", "status_other"}
       /\ last[r].now >= streak[r].first + grace_stop_seconds
       /\ ~stop_flag[r]

\* C5: when the poll of a room whose session ended by itself (connection
\* closed with no stop requested) reports the room live, the monitor starts a
\* new session.
C5_FreshSessionAfterClose ==
    [][\A r \in Rooms :
          (/\ IterateStep(r)
           /\ last'[r].reply = "status2"
           /\ running[r]
           /\ ~stop_flag[r]
           /\ fetcher[r] # None
           /\ pc[fetcher[r]] = "done"
           /\ ws[fetcher[r]] = "lost"
           /\ FreeSessions # {})
          => fetcher'[r] # fetcher[r] /\ pc'[fetcher'[r]] = "start"]_vars

\* C6: after an iteration whose session start raised, LiveTask.running is
\* false.
C6_StartFailureStaysIdle ==
    \A r \in tasks :
       (/\ mpc[r] = "sleep"
        /\ ~stop_flag[r]
        /\ last[r].start \in {"mkdir_fails", "open_fails"}) => ~running[r]

\* The iteration leaves the room and its session as they were and goes on to
\* the normal wait.
PollSkipped(r) ==
    /\ mpc'[r] = "sleep"
    /\ running'[r] = running[r]
    /\ pending_stop_deadline'[r] = pending_stop_deadline[r]
    /\ live_id'[r] = live_id[r]
    /\ SessionKept(r)

\* C7 as claimed: a poll whose probe raises or whose response is not JSON
\* changes nothing.
C7_FailedProbeSkipsPoll ==
    [][\A r \in Rooms :
          (IterateStep(r) /\ last'[r].reply \in {"error", "nonjson"})
             => PollSkipped(r)]_vars

\* C7: a poll whose probe raises changes neither the room state nor the
\* session nor the deadline, and the monitor goes on to the normal wait.
C7_ProbeErrorSkipsPoll ==
    [][\A r \in Rooms :
          (IterateStep(r) /\ last'[r].reply = "error") => PollSkipped(r)]_vars

\* A probe raised at a poll past the deadline of a room in GRACE, and the
\* room is still in GRACE.
C7_Witness ==
    \E r \in tasks :
       /\ last[r].reply = "error"
       /\ last[r].state = "GRACE"
       /\ StateOf(r) = "GRACE"
       /\ last[r].now >= pending_stop_deadline[r]
       /\ mpc[r] = "sleep"

(***************************************************************************)
(* Properties of the frame handler.                                        *)
(***************************************************************************)
\* A step that is one call of _on_message by session s, on frame cur[s].
HandleStep(s) == pc[s] = "handle" /\ pc'[s] # "handle"

AckOf(f) ==
    IF f.kind = "ok" /\ f.need_ack
    THEN <<[log_id |-> f.log_id, payload_type |-> "ack", payload |-> f.internal_ext]>>
    ELSE <<>>

\* C8 as claimed: every frame whose decoded response requests an ack has
\* exactly one ack sent in its own _on_message call, with its log id and
\* extension bytes; no other frame has one.
C8_AckEveryRequest ==
    [][\A s \in Sessions :
          HandleStep(s) => sent[s] = <<>> /\ sent'[s] = AckOf(cur[s])]_vars

\* C8: a frame handled while the connection is open has exactly one ack sent
\* in its own _on_message call when its decoded response requests one, with
\* its log id and extension bytes, and none otherwise; on a connection closed
\* by stop() the send raises and nothing is sent; on one the peer has ended
\* that ack is sent or nothing is.
C8_AckWhileOpen ==
    [][\A s \in Sessions :
          HandleStep(s) =>
             /\ sent[s] = <<>>
             /\ ws[s] = "open" => sent'[s] = AckOf(cur[s])
             /\ ws[s] = "closed" => sent'[s] = <<>>
             /\ sent'[s] \in {<<>>, AckOf(cur[s])}]_vars

\* The second frame of a connection requested an ack with log id 12 and
\* extension "y", and that ack and no other was sent for it.
C8_Witness ==
    \E s \in Sessions :
       /\ pc[s] = "recv"
       /\ nrecv = 2
       /\ cur[s].need_ack /\ cur[s].log_id = 12
       /\ sent[s] = <<[log_id |-> 12, payload_type |-> "ack", payload |-> "y"]>>

\* C9: _on_message on a frame that does not parse or does not decompress
\* sends nothing, calls on_chat for nothing, writes nothing, and leaves the
\* connection, the session and the room as they were, with the receive loop
\* ready for the next frame; and once the frames of the connection have been
\* (chat "hello" from "u1", one non-chat message, a malformed frame), exactly
\* one record, for "hello", is in the sink.
C9_BadFrameDroppedAlone ==
    /\ [][\A s \in Sessions :
             (HandleStep(s) /\ cur[s].kind # "ok") =>
                /\ pc'[s] = "recv"
                /\ UNCHANGED <<sent, ncalls, sink, ws, _running, hb, file_open,
                               s_room, mvars>>
                /\ \A t \in Sessions \ {s} : pc'[t] = pc[t]]_vars
    /\ [](script_pos = Len(EndToEndScript) /\ main_pc = "run"
             /\ (\A s \in Sessions : pc[s] # "handle")
          => \E s \in Sessions :
                /\ sink[s] = <<[user_name |-> "u1", content |-> "hello"]>>
                /\ ncalls[s] = 1
                /\ \A t \in Sessions \ {s} : sink[t] = <<>> /\ ncalls[t] = 0)

\* The three frames of the end-to-end sequence were handled and the
\* connection is open, waiting for the next frame.
C9_Witness ==
    \E s \in Sessions :
       /\ script_pos = Len(EndToEndScript)
       /\ cur[s].kind = "malformed"
       /\ pc[s] = "recv"
       /\ ws[s] = "open"
       /\ _running[s]
       /\ Len(sink[s]) = 1

IsChat(m) == m.method = ChatMethod /\ m.payload # Undecodable

\* The chat messages of a batch that decode, in order.
ChatsOf(f) == SelectSeq(f.messages_list, IsChat)

RecordsOf(f) ==
    [i \in 1..Len(ChatsOf(f)) |-> [user_name |-> "u1", content |-> ChatsOf(f)[i].payload]]

\* The call of _on_message invokes on_chat once for each chat message of the
\* batch that decodes and for nothing else, writes their records in order
\* when the file is open, and leaves the connection and the loop as they were.
BatchDispatched(s) ==
    /\ ncalls'[s] = ncalls[s] + Len(ChatsOf(cur[s]))
    /\ file_open[s] => sink'[s] = sink[s] \o RecordsOf(cur[s])
    /\ pc'[s] = "recv"
    /\ UNCHANGED <<ws, _running>>

\* C10 as claimed: every decoded batch is dispatched so.
C10_EveryBatchDispatched ==
    [][\A s \in Sessions :
          (HandleStep(s) /\ cur[s].kind = "ok") => BatchDispatched(s)]_vars

\* C10: a decoded batch whose ack, if one is requested, could be sent is
\* dispatched so: one on_chat call per chat message that decodes, none for
\* any other message, a message that fails to decode skipped and the later
\* ones still processed, the connection left open.
C10_DispatchChatOnly ==
    [][\A s \in Sessions :
          (/\ HandleStep(s)
           /\ cur[s].kind = "ok"
           /\ cur[s].need_ack => ws[s] = "open") => BatchDispatched(s)]_vars

\* A batch of a chat message that fails to decode followed by one that
\* decodes was handled: one call, one record.
C10_Witness ==
    \E s \in Sessions :
       /\ pc[s] = "recv"
       /\ nrecv = 1
       /\ cur[s].kind = "ok"
       /\ cur[s].messages_list = <<[method |-> ChatMethod, payload |-> Undecodable],
                                   [method |-> ChatMethod, payload |-> "hello"]>>
       /\ ncalls[s] = 1
       /\ sink[s] = <<[user_name |-> "u1", content |-> "hello"]>>
       /\ ws[s] = "open"

(***************************************************************************)
(* Properties of the shutdown and of stopping a session.                   *)
(***************************************************************************)
\* C13 as claimed: once main has called stop_fetch on every monitor (lines
\* 511-513 are behind it), every monitor has its stop flag set and no room
\* has a running capture session, whatever the monitors were doing.
C13_ShutdownStopsEverySession ==
    main_pc \in {"wait", "done"} =>
        \A r \in tasks : stop_flag[r] /\ ~running[r]

\* Room r is as stop_fetch leaves it: not running, the session told to stop,
\* its connection not open, its file closed, the join behind.
Stopped(r) ==
    /\ ~running[r]
    /\ mpc[r] # "join"
    /\ fetcher[r] # None
    /\ ~_running[fetcher[r]]
    /\ ws[fetcher[r]] \notin {"open", "halfopen", "lost"}
    /\ out_file[r] # None => ~file_open[out_file[r]]

\* A step of main inside stop_fetch for the task it is stopping.
MainStopStep == main_pc \in {"stop", "join"} /\ main_pc' # main_pc

\* C14: stop_fetch on a room whose session is already stopped changes
\* nothing and raises nothing: the room state, the session (its flag, its
\* connection, its threads), the file and its records are as the first stop
\* left them, and main goes on with the shutdown.
C14_SecondStopNoOp ==
    [][\A r \in main_todo :
          (MainStopStep /\ r = NextTask /\ Stopped(r)) =>
          /\ RoomState(running'[r], pending_stop_deadline'[r]) = StateOf(r)
          /\ UNCHANGED <<running, pending_stop_deadline, fetcher, ws_thread,
                         out_file, s_room, _running, ws, pc, hb, file_open,
                         sink, ncalls>>
          /\ main_pc' \in {"stop", "join", "wait"}]_vars

\* The monitor stopped the session of its room when the grace period ran
\* out, finished stop_fetch and went on polling; then the shutdown called
\* stop_fetch on the room again.
C14_Witness ==
    \E r \in tasks :
       /\ main_pc = "join"
       /\ NextTask = r
       /\ stop_flag[r]
       /\ mpc[r] = "probe"
       /\ streak[r].stops = 1
       /\ Stopped(r)
       /\ pc[fetcher[r]] = "done"

\* C16 as claimed: the grace deadline of a room is set only while the room
\* is in GRACE, also after the shutdown stopped its session.
C16_DeadlineOnlyInGrace ==
    \A r \in Rooms : pending_stop_deadline[r] # None => StateOf(r) = "GRACE"

\* C18 as claimed: no two sessions of one room have an open connection at
\* the same time.
C18_OneConnectionPerRoom ==
    \A s, t \in Sessions :
       (s # t /\ s_room[s] # None /\ s_room[s] = s_room[t]) =>
           ~(ws[s] = "open" /\ ws[t] = "open")

(***************************************************************************)
(* Properties of the threads of a session.                                 *)
(***************************************************************************)
\* DanmuFetcher.stop has been called on session s: stop_fetch ran for its
\* room since start_fetch created it (a room starts a session only when it
\* is not running, and only stop_fetch clears running).
StopCalled(s) ==
    /\ s_room[s] # None
    /\ fetcher[s_room[s]] # s \/ ~running[s_room[s]]

\* The receive loop of session s waits for frames on a connection nothing
\* has closed.
ReceivingOnOpen(s) == pc[s] = "recv" /\ ws[s] \in {"open", "halfopen"}

\* C12 as claimed, in the form a finite run refutes: once stop() has been
\* called on a session, at whatever point of its start, its receive loop is
\* never again waiting on an open connection (stop closes the connection and
\* nothing else of the session would).
C12_StopEndsSession ==
    \A s \in Sessions : StopCalled(s) => ~ReceivingOnOpen(s)

\* C17 as claimed, in the form a finite run refutes: once the heartbeat loop
\* of a session has ended on a send error, the receive loop of the session is
\* not waiting on a connection that is still open.
C17_HeartbeatFailureEndsStream ==
    \A s \in Sessions : hb[s] = "failed" => ~ReceivingOnOpen(s)

(***************************************************************************)
(* Properties of normalize_ts_ms.                                          *)
(***************************************************************************)
\* The timestamp 16 followed by n zeros.
Sixteen(n) == <<1, 6>> \o Zeros(n)

\* What the magnitude of t, read off its number of digits, asks for: up to
\* 10 digits t * 1000, up to 13 digits t, up to 16 digits t without its last
\* three digits, above that t without its last six.
ByMagnitude(t) ==
    IF Len(t) <= 10 THEN (IF t = <<0>> THEN t ELSE t \o <<0, 0, 0>>)
    ELSE IF Len(t) <= 13 THEN t
    ELSE IF Len(t) <= 16 THEN SubSeq(t, 1, Len(t) - 3)
    ELSE SubSeq(t, 1, Len(t) - 6)

\* C15: normalize_ts_ms returns ts * 1000 below 10^10, ts from 10^10 to below
\* 10^13, ts div 1000 from 10^13 to below 10^16 and ts div 1000000 from 10^16
\* on, the boundary values 10^10, 10^13 and 10^16 included; 1600000000 gives
\* 1600000000000 and 1600000000000000000 gives 1600000000000.
C15_NormalizeByMagnitude ==
    ts_ms # NoTs =>
        /\ ts_ms = ByMagnitude(ts)
        /\ ts = Pow10(10) => ts_ms = Pow10(10)
        /\ ts = Pow10(13) => ts_ms = Pow10(10)
        /\ ts = Pow10(16) => ts_ms = Pow10(10)
        /\ ts = Nines(10) => ts_ms = Nines(10) \o <<0, 0, 0>>
        /\ ts = Nines(13) => ts_ms = Nines(13)
        /\ ts = Nines(16) => ts_ms = Nines(13)
        /\ ts = Sixteen(8) => ts_ms = Sixteen(11)
        /\ ts = Sixteen(17) => ts_ms = Sixteen(11)

\* The boundary value 10^10 has been normalized.
C15_Witness == ts = Pow10(10) /\ ts_ms = Pow10(10)

(***************************************************************************)
(* Properties of the polling interval and of the status line.              *)
(***************************************************************************)
\* C20 as claimed: whatever the configured loop time, a monitor that probes
\* its room again (it is not being stopped) has waited at least one second
\* since the probe before.
C20_PollingFloor ==
    \A r \in tasks :
       (mpc[r] = "probe" /\ last[r] # NoIter) => waited[r] >= 1

\* C19 as claimed: the number of recording rooms display_info has summed up
\* when its scan is over is a number of rooms that were running at one
\* moment of the scan.
C19_ConsistentSnapshot ==
    (rep_pc = "scan" /\ rep_todo = {}) => rep_count \in rep_seen

(***************************************************************************)
(* Properties of the order of the records.                                 *)
(***************************************************************************)
\* q is the tail of p.
IsTail(q, p) ==
    Len(q) <= Len(p) /\ SubSeq(p, Len(p) - Len(q) + 1, Len(p)) = q

\* C11: the file of every session of a room only grows, and only by the call
\* of _on_message on the frame its connection delivered last, which appends
\* the records of the chat messages of that frame in the order they have in
\* it; and when the receive loop takes the next frame, with the file and the
\* connection open, the records of the frame before are the tail of the file.
\* So across the sessions a room starts and stops, each file holds its
\* records in the order of the wire.
C11_WireOrder ==
    [][\A s \in Sessions :
          /\ sink'[s] # sink[s] =>
                HandleStep(s) /\ sink'[s] = sink[s] \o RecordsOf(cur[s])
          /\ (pc'[s] = "recv" /\ cur'[s].kind = "ok" /\ file_open'[s]
                /\ ws'[s] = "open") => IsTail(RecordsOf(cur'[s]), sink'[s])]_vars

\* The room stopped its first session, which had written the record of one
\* frame, and started a second one, which wrote the two records of another
\* frame in the order of the frame.
C11_Witness ==
    \E s, t \in Sessions :
       /\ s < t
       /\ s_room[s] = 1 /\ s_room[t] = 1
       /\ StopCalled(s)
       /\ sink[s] = <<[user_name |-> "u1", content |-> "world"]>>
       /\ cur[t].messages_list = <<World, Hello>>
       /\ sink[t] = <<[user_name |-> "u1", content |-> "world"],
                      [user_name |-> "u1", content |-> "hello"]>>

(***************************************************************************)
(* Properties of the output files.                                         *)
(***************************************************************************)
\* C21: the file a session opened changes only by a call of _on_message of
\* that very session, by the records of the frame its own connection
\* delivered, and only while the file is open; a closed file is never opened
\* again.  So an event the receive thread of a stopped session still
\* delivers never reaches the file of a later session of the room, and
\* nothing is appended once stop_fetch has closed the file.
C21_OwnFileOnly ==
    [][\A f \in Sessions :
          /\ sink'[f] # sink[f] =>
                /\ HandleStep(f)
                /\ file_open[f]
                /\ sink'[f] = sink[f] \o RecordsOf(cur[f])
          /\ (s_room[f] # None /\ ~file_open[f]) => ~file_open'[f]
          /\ \A g \in Sessions \ {f} : HandleStep(g) => sink'[f] = sink[f]]_vars

\* The shutdown stopped the first session of room 1 and closed its file, the
\* monitor started a second session with its own file, and the receive
\* thread of the first then delivered a chat message: on_chat was called and
\* no file has a record.
C21_Witness ==
    \E s, t \in Sessions :
       /\ s < t
       /\ s_room[s] = 1 /\ s_room[t] = 1
       /\ ~file_open[s] /\ file_open[t]
       /\ pc[s] = "recv"
       /\ RecordsOf(cur[s]) # <<>>
       /\ ncalls[s] = 1
       /\ sink[s] = <<>>
       /\ sink[t] = <<>>

====
